---- MODULE Spec2Model ----
(***************************************************************************)
(* Model of src/main.py: a Flask application with the routes /health and   *)
(* /download.  download() reads a cookie jar from Firestore, turns it into *)
(* a Cookie header, fetches the asset page, extracts two ids from the      *)
(* embedded __NEXT_DATA__ JSON, calls the download API, and relays the     *)
(* file the API points at.                                                 *)
(*                                                                         *)
(* Text is a sequence of one-character strings.  A JSON value is a record  *)
(* tagged by t.  The handler is followed position by position (pc): it     *)
(* blocks on each outbound call, and the answer of the other side is an    *)
(* input of the step that consumes it.                                     *)
(***************************************************************************)
EXTENDS Integers, Sequences, FiniteSets, TLC

\* ------------------------------------------------------------------ bounds
MaxLines == 3        \* lines in a cookie jar blob (parser specification)
MaxChunks == 2       \* chunks in an upstream file body

\* ------------------------------------------------------------ Python text
TAB == "\t"
NL == "\n"
SP == " "
Whitespace == {SP, TAB, NL, "\r"}

RECURSIVE lstrip(_)
lstrip(s) ==
  IF s = <<>> THEN s
  ELSE IF Head(s) \in Whitespace THEN lstrip(Tail(s)) ELSE s

RECURSIVE rstrip(_)
rstrip(s) ==
  IF s = <<>> THEN s
  ELSE IF s[Len(s)] \in Whitespace THEN rstrip(SubSeq(s, 1, Len(s) - 1)) ELSE s

\* str.strip()
strip(s) == rstrip(lstrip(s))

\* str.split(sep) for a one-character sep: '' splits into ['']
RECURSIVE split(_, _)
split(s, sep) ==
  IF \A i \in 1..Len(s) : s[i] # sep THEN <<s>>
  ELSE LET i == CHOOSE j \in 1..Len(s) :
                  s[j] = sep /\ \A k \in 1..(j - 1) : s[k] # sep
       IN <<SubSeq(s, 1, i - 1)>> \o split(SubSeq(s, i + 1, Len(s)), sep)

\* sep.join(parts)
RECURSIVE join(_, _)
join(sep, parts) ==
  IF parts = <<>> THEN <<>>
  ELSE IF Len(parts) = 1 THEN parts[1]
  ELSE parts[1] \o sep \o join(sep, Tail(parts))

startswith(s, c) == s # <<>> /\ s[1] = c

\* Optional[str]: None, or the text s
PyNone == [isNone |-> TRUE, s |-> <<>>]
PyStr(s) == [isNone |-> FALSE, s |-> s]
\* `not x` for an Optional[str]
NotStr_m(x) == x.isNone
NotStr(x) == x.isNone \/ x.s = <<>>

\* ------------------------------------------- parse_cookies_for_header (51-54)
\* the filter of the comprehension
keeps_m(line) ==
  /\ strip(line) # <<>>
  /\ ~ startswith(strip(line), "#")
  /\ Len(split(strip(line), TAB)) >= 7
keeps(line) ==
  /\ strip(line) # <<>>
  /\ ~ startswith(strip(line), "#")
  /\ Len(split(strip(line), TAB)) = 7

\* f"{parts[5]}={parts[6]}" (0-indexed)
pair(line) ==
  LET parts == split(strip(line), TAB) IN parts[6] \o <<"=">> \o parts[7]

RECURSIVE pairs(_)
pairs(lines) ==
  IF lines = <<>> THEN <<>>
  ELSE (IF keeps(lines[1]) THEN <<pair(lines[1])>> ELSE <<>>) \o pairs(Tail(lines))

parse_cookies_for_header(cookie_string) ==
  IF NotStr(cookie_string) THEN <<>>
  ELSE join(<<";", SP>>, pairs(split(strip(cookie_string.s), NL)))

\* ------------------------------------------------------------- JSON values
JNull == [t |-> "null"]
JNum(n) == [t |-> "num", n |-> n]
JStr(s) == [t |-> "str", s |-> s]
JArr == [t |-> "arr", len |-> 1]
JObj(f) == [t |-> "obj", f |-> f]
EmptyDict == JObj([k \in {} |-> JNull])
\* what `x.get(...)` leaves behind when x has no attribute get
AttributeError == [t |-> "AttributeError"]

\* Python truthiness of a JSON value (`not x` is ~Truthy(x))
Truthy_m(x) == x.t # "null"
Truthy(x) ==
  CASE x.t = "null" -> FALSE
    [] x.t = "num" -> x.n # 0
    [] x.t = "str" -> x.s # ""
    [] x.t = "arr" -> x.len > 0
    [] x.t = "obj" -> DOMAIN x.f # {}
    [] OTHER -> FALSE

\* x.get(k, d): only a dict has get; the default is used for a missing key
\* only, a key present with null yields None
Get(x, k, d) ==
  IF x.t # "obj" THEN AttributeError
  ELSE IF k \in DOMAIN x.f THEN x.f[k] ELSE d

\* ------------------------------------------------------------- responses
\* kind: "json" (jsonify), "html" (an error page Flask or werkzeug renders),
\* "text" (a plain string), "stream" (a Response over an iterator)
NoResponse == [status |-> 0, kind |-> "none", msg |-> "", headers |-> <<>>]
\* jsonify({'error': msg}), status
jsonify(msg, status) ==
  [status |-> status, kind |-> "json", msg |-> msg,
   headers |-> ("Content-Type" :> "application/json")]
\* Flask's answer to an exception the view does not catch
InternalServerError ==
  [status |-> 500, kind |-> "html", msg |-> "Internal Server Error",
   headers |-> ("Content-Type" :> "text/html")]
\* werkzeug's answer of an HTTPException (NotFound, MethodNotAllowed, BadRequest)
HTTPException(status) ==
  [status |-> status, kind |-> "html", msg |-> "HTTPException",
   headers |-> ("Content-Type" :> "text/html")]

MsgUrlRequired == "Freepik URL is required."
MsgNoCookie == "Could not retrieve Freepik cookie from database."
MsgParseCookies == "Failed to parse cookies."
MsgPageData == "Could not parse page data. Site structure may have changed."
MsgParams == "Could not extract necessary download parameters."
MsgNoLink == "Could not get download link from Freepik API."
MsgUpstream == "Failed to communicate with Freepik API. Cookies may be expired."

\* Response.raise_for_status(): HTTPError for 400 <= status < 600
raise_for_status(status) == 400 <= status /\ status < 600

\* ------------------------------------------------------- cookie jar lines
\* One line of a jar, with what the parser is to make of it: keep says the
\* line is a cookie record, out is its `name=value`.
Line(raw, keep, out) == [raw |-> raw, keep |-> keep, out |-> out]
Fields7(n, v) == <<"d", TAB, "T", TAB, "/", TAB, "F", TAB, "0", TAB>> \o n \o <<TAB>> \o v
JarLines ==
  << Line(Fields7(<<"a">>, <<"1">>), TRUE, <<"a", "=", "1">>),
     Line(Fields7(<<"b">>, <<"2">>), TRUE, <<"b", "=", "2">>),
     Line(<<SP>> \o Fields7(<<"c">>, <<"3">>) \o <<SP>>, TRUE, <<"c", "=", "3">>),
     Line(<<TAB>> \o Fields7(<<"e">>, <<"4">>), TRUE, <<"e", "=", "4">>),
     Line(Fields7(<<>>, <<"5">>), TRUE, <<"=", "5">>),
     Line(<<>>, FALSE, <<>>),
     Line(<<SP, TAB>>, FALSE, <<>>),
     Line(<<"#", SP, "N">>, FALSE, <<>>),
     Line(<<SP, "#">> \o Fields7(<<"h">>, <<"6">>), FALSE, <<>>),
     Line(<<"d", TAB, "T", TAB, "/", TAB, "F", TAB, "0", TAB, "s">>, FALSE, <<>>),
     Line(Fields7(<<"l">>, <<"7">>) \o <<TAB, "x">>, FALSE, <<>>),
     Line(Fields7(<<"t">>, <<>>), FALSE, <<>>) >>

\* the blob whose lines are the JarLines named by idx, '\n' between them
RECURSIVE Render(_)
Render(idx) ==
  IF idx = <<>> THEN <<>>
  ELSE IF Len(idx) = 1 THEN JarLines[idx[1]].raw
  ELSE JarLines[idx[1]].raw \o <<NL>> \o Render(Tail(idx))

\* ----------------------------------------------------- the cookie store
\* db: the client was created at import (24-31); raises: doc.get() raises;
\* exists: doc.exists; hasValue: the document has a 'value' key
Store(db, raises, exists, hasValue, value) ==
  [db |-> db, raises |-> raises, exists |-> exists, hasValue |-> hasValue,
   value |-> value, read |-> TRUE]
Stores ==
  << Store(FALSE, FALSE, FALSE, FALSE, <<>>),
     Store(TRUE, TRUE, FALSE, FALSE, <<>>),
     Store(TRUE, FALSE, FALSE, FALSE, <<>>),
     Store(TRUE, FALSE, TRUE, FALSE, <<>>),
     Store(TRUE, FALSE, TRUE, TRUE, <<>>),
     Store(TRUE, FALSE, TRUE, TRUE, <<SP, NL>>),
     Store(TRUE, FALSE, TRUE, TRUE, Render(<<8, 6, 10>>)),
     Store(TRUE, FALSE, TRUE, TRUE, Render(<<8, 1>>)),
     Store(TRUE, FALSE, TRUE, TRUE, Render(<<1, 11, 2, 6>>)) >>

get_freepik_cookies(st) ==
  IF ~ st.db THEN PyNone
  ELSE IF st.raises THEN PyNone
  ELSE IF st.exists
       THEN (IF st.hasValue THEN PyStr(st.value) ELSE PyNone)
       ELSE PyNone

\* -------------------------------------------------------- what upstream says
\* statuses an upstream server may answer a request that was not redirected
Statuses == {200, 300, 404, 503}

\* an asset page: tag says the text matches
\* <script id="__NEXT_DATA__" type="application/json">(.*?)</script>,
\* valid says json.loads accepts the captured text, data is what it returns
Page(tag, valid, data) == [tag |-> tag, valid |-> valid, data |-> data]
Wallet(w) == JObj("wallet" :> w)
PageProps(f) == JObj("props" :> JObj("pageProps" :> JObj(f)))
Full(r, w) == PageProps(("id" :> r) @@ ("user" :> Wallet(JObj("id" :> w))))
Ids == << JNull, JNum(0), JNum(7), JStr(""), JStr("r1") >>
Pages ==
  << Page(FALSE, FALSE, JNull),
     Page(TRUE, FALSE, JNull),
     Page(TRUE, TRUE, JNull),
     Page(TRUE, TRUE, JArr),
     Page(TRUE, TRUE, EmptyDict),
     Page(TRUE, TRUE, JObj("props" :> JNull)),
     Page(TRUE, TRUE, JObj("props" :> EmptyDict)),
     Page(TRUE, TRUE, JObj("props" :> JObj("pageProps" :> JNull))),
     Page(TRUE, TRUE, PageProps("id" :> JNum(7))),
     Page(TRUE, TRUE, PageProps(("id" :> JNum(7)) @@ ("user" :> JNull))),
     Page(TRUE, TRUE, PageProps(("id" :> JNum(7)) @@ ("user" :> EmptyDict))),
     Page(TRUE, TRUE, PageProps(("id" :> JNum(7)) @@ ("user" :> Wallet(JNull)))),
     Page(TRUE, TRUE, PageProps(("id" :> JNum(7)) @@ ("user" :> Wallet(EmptyDict)))),
     Page(TRUE, TRUE, PageProps("user" :> Wallet(JObj("id" :> JStr("w1"))))) >>
    \o [i \in 1..(Len(Ids) * Len(Ids)) |->
          Page(TRUE, TRUE, Full(Ids[((i - 1) \div Len(Ids)) + 1], Ids[((i - 1) % Len(Ids)) + 1]))]

\* the body of the API's answer: valid says it is JSON
ApiBody(valid, data) == [valid |-> valid, data |-> data]
ApiBodies ==
  << ApiBody(FALSE, JNull),
     ApiBody(TRUE, JNull),
     ApiBody(TRUE, JArr),
     ApiBody(TRUE, EmptyDict),
     ApiBody(TRUE, JObj("url" :> JNull)),
     ApiBody(TRUE, JObj("url" :> JStr(""))),
     ApiBody(TRUE, JObj("url" :> JStr("https://cdn.example/f.zip"))) >>

\* headers of the upstream file response, by lower-case name
FileHeaders ==
  << <<>>,
     ("content-type" :> "application/zip"),
     ("content-disposition" :> "attachment; filename=f.zip"),
     ("content-type" :> "application/zip") @@ ("content-disposition" :> "attachment; filename=f.zip") >>
Chunks == {"c1", "c2"}
RECURSIVE Bodies(_)
Bodies(n) ==
  IF n = 0 THEN {<<>>}
  ELSE Bodies(n - 1) \cup {Append(b, c) : b \in Bodies(n - 1), c \in Chunks}

\* a requests.Response; err: the call raised a RequestException that carries
\* no response (ConnectionError, Timeout, MissingSchema, ...)
NoUpstream == [err |-> FALSE, status |-> 0, content |-> <<>>, headers |-> <<>>]
Upstream(err, status, content, headers) ==
  [err |-> err, status |-> status, content |-> content, headers |-> headers]

\* a call made by the handler: op, and the Cookie header sent with it
\* (PyNone: the request carries no Cookie header)
Call(op, cookie) == [op |-> op, cookie |-> cookie]

\* ------------------------------------------------------------------ state
VARIABLES
  pc,                 \* position of the request
  request,            \* the HTTP request received
  response,           \* the HTTP response given to the client
  freepik_url, cookie_header, page_response, resource_id, wallet_id, payload,
  api_response, final_download_url, file_response,   \* locals of download()
  store,              \* the cookie store as get_freepik_cookies() found it
  calls,              \* the store read and the outbound requests, in order
  conn,               \* the connection of the streamed file GET
  relayed,            \* chunks written to the client
  stream_end,         \* how the relay stopped
  blob, parsed        \* parser specification: jar lines chosen, header parsed

vars == << pc, request, response, freepik_url, cookie_header, page_response,
           resource_id, wallet_id, payload, api_response, final_download_url,
           file_response, store, calls, conn, relayed, stream_end, blob, parsed >>

locals == << freepik_url, cookie_header, page_response, resource_id, wallet_id,
             payload, api_response, final_download_url, file_response >>

Methods == {"GET", "POST"}
Paths == {"/health", "/download", "/check-login"}
Body(kind, data) == [kind |-> kind, data |-> data]
RequestBodies ==
  << Body("json", JNull),
     Body("malformed", JNull),
     Body("json", JArr),
     Body("json", EmptyDict),
     Body("json", JObj("freepikUrl" :> JNull)),
     Body("json", JObj("freepikUrl" :> JStr(""))),
     Body("json", JObj("freepikUrl" :> JStr("https://example.com/x"))),
     Body("json", JObj("freepikUrl" :> JStr("https://www.freepik.com/a"))) >>
NoRequest == [method |-> "", path |-> "", body |-> Body("none", JNull)]
NoPayload == [resource |-> JNull, action |-> "", walletId |-> JNull, locale |-> ""]
NoStore == [db |-> FALSE, raises |-> FALSE, exists |-> FALSE, hasValue |-> FALSE,
            value |-> <<>>, read |-> FALSE]

Init ==
  /\ pc = "idle"
  /\ request = NoRequest
  /\ response = NoResponse
  /\ freepik_url = JNull
  /\ cookie_header = <<>>
  /\ page_response = NoUpstream
  /\ resource_id = JNull
  /\ wallet_id = JNull
  /\ payload = NoPayload
  /\ api_response = NoUpstream
  /\ final_download_url = JNull
  /\ file_response = NoUpstream
  /\ store = NoStore
  /\ calls = <<>>
  /\ conn = "none"
  /\ relayed = <<>>
  /\ stream_end = ""
  /\ blob = <<>>
  /\ parsed = <<>>

\* the view returns (or raises): the response is r
Respond(r) == /\ response' = r
              /\ pc' = "done"

\* the rule the URL map picks: @app.route('/health') answers GET,
\* @app.route('/download', methods=['POST']) answers POST
Route(method, path) ==
  CASE path = "/health" -> (IF method = "GET" THEN "health" ELSE "405")
    [] path = "/download" -> (IF method = "POST" THEN "download" ELSE "405")
    [] OTHER -> "404"

health ==
  /\ pc = "idle"
  /\ \E m \in Methods, p \in Paths :
       /\ Route(m, p) = "health"
       /\ request' = [method |-> m, path |-> p, body |-> Body("none", JNull)]
  /\ Respond([status |-> 200, kind |-> "text", msg |-> "OK",
              headers |-> ("Content-Type" :> "text/html")])
  /\ UNCHANGED << locals, store, calls, conn, relayed, stream_end, blob, parsed >>

\* no rule matches: werkzeug answers NotFound or MethodNotAllowed
unrouted ==
  /\ pc = "idle"
  /\ \E m \in Methods, p \in Paths :
       /\ Route(m, p) \in {"404", "405"}
       /\ request' = [method |-> m, path |-> p, body |-> Body("none", JNull)]
       /\ Respond(HTTPException(IF Route(m, p) = "404" THEN 404 ELSE 405))
  /\ UNCHANGED << locals, store, calls, conn, relayed, stream_end, blob, parsed >>

\* download(), lines 62-68
download_begin ==
  /\ pc = "idle"
  /\ \E m \in Methods, p \in Paths, i \in 1..Len(RequestBodies) :
       LET body == RequestBodies[i]
           url == Get(body.data, "freepikUrl", JNull)
       IN /\ Route(m, p) = "download"
          /\ request' = [method |-> m, path |-> p, body |-> body]
          /\ IF body.kind = "malformed"
             THEN Respond(HTTPException(400)) /\ UNCHANGED freepik_url
             ELSE IF url.t = "AttributeError"
             THEN Respond(InternalServerError) /\ UNCHANGED freepik_url
             ELSE IF ~ Truthy(url)
             THEN Respond(jsonify(MsgUrlRequired, 400)) /\ freepik_url' = url
             ELSE /\ freepik_url' = url
                  /\ pc' = "cookies"
                  /\ UNCHANGED response
  /\ UNCHANGED << cookie_header, page_response, resource_id, wallet_id, payload,
                  api_response, final_download_url, file_response,
                  store, calls, conn, relayed, stream_end, blob, parsed >>

\* download(), lines 70-82
download_cookies ==
  /\ pc = "cookies"
  /\ \E i \in 1..Len(Stores) :
       LET cookie_string == get_freepik_cookies(Stores[i])
           header == parse_cookies_for_header(cookie_string)
       IN /\ store' = Stores[i]
          /\ IF NotStr(cookie_string)
             THEN Respond(jsonify(MsgNoCookie, 500)) /\ UNCHANGED cookie_header
             ELSE IF NotStr(PyStr(header))
             THEN Respond(jsonify(MsgParseCookies, 500)) /\ cookie_header' = header
             ELSE /\ cookie_header' = header
                  /\ pc' = "page"
                  /\ UNCHANGED response
  /\ calls' = Append(calls, Call("store", PyNone))
  /\ UNCHANGED << request, freepik_url, page_response, resource_id, wallet_id,
                  payload, api_response, final_download_url, file_response,
                  conn, relayed, stream_end, blob, parsed >>

\* the except clause, lines 145-150
request_exception == Respond(jsonify(MsgUpstream, 502))

\* download(), lines 84-120: the page GET up to the API payload
download_page ==
  /\ pc = "page"
  /\ \E err \in BOOLEAN, status \in Statuses, i \in 1..Len(Pages) :
       LET r == Upstream(err, IF err THEN 0 ELSE status, Pages[i], <<>>)
           next_data == r.content.data
           pageProps == Get(Get(next_data, "props", EmptyDict), "pageProps", EmptyDict)
           rid == Get(pageProps, "id", JNull)
           wid == Get(Get(Get(pageProps, "user", EmptyDict), "wallet", EmptyDict), "id", JNull)
       IN /\ page_response' = r
          /\ IF r.err \/ raise_for_status(r.status)
             THEN request_exception /\ UNCHANGED << resource_id, wallet_id, payload >>
             ELSE IF ~ r.content.tag
             THEN Respond(jsonify(MsgPageData, 500))
                  /\ UNCHANGED << resource_id, wallet_id, payload >>
             ELSE IF ~ r.content.valid \/ rid.t = "AttributeError"
             THEN Respond(InternalServerError)
                  /\ UNCHANGED << resource_id, wallet_id, payload >>
             ELSE IF wid.t = "AttributeError"
             THEN Respond(InternalServerError)
                  /\ resource_id' = rid
                  /\ UNCHANGED << wallet_id, payload >>
             ELSE /\ resource_id' = rid
                  /\ wallet_id' = wid
                  /\ IF ~ Truthy(rid) \/ ~ Truthy(wid)
                     THEN Respond(jsonify(MsgParams, 500)) /\ UNCHANGED payload
                     ELSE /\ payload' = [resource |-> rid, action |-> "download",
                                         walletId |-> wid, locale |-> "en"]
                          /\ pc' = "api"
                          /\ UNCHANGED response
  /\ calls' = Append(calls, Call("page_get", PyStr(cookie_header)))
  /\ UNCHANGED << request, freepik_url, cookie_header, api_response,
                  final_download_url, file_response, store, conn, relayed,
                  stream_end, blob, parsed >>

\* download(), lines 122-133: the API POST up to the download URL.  A body
\* that is not JSON makes api_response.json() raise: a RequestException
\* (requests.exceptions.JSONDecodeError) in requests 2.27 and later, a plain
\* ValueError before; the repository pins no version.
download_api ==
  /\ pc = "api"
  /\ \E err \in BOOLEAN, status \in Statuses, i \in 1..Len(ApiBodies), caught \in BOOLEAN :
       LET r == Upstream(err, IF err THEN 0 ELSE status, ApiBodies[i], <<>>)
           url == Get(r.content.data, "url", JNull)
       IN /\ api_response' = r
          /\ IF r.err \/ raise_for_status(r.status)
             THEN request_exception /\ UNCHANGED final_download_url
             ELSE IF ~ r.content.valid
             THEN (IF caught THEN request_exception ELSE Respond(InternalServerError))
                  /\ UNCHANGED final_download_url
             ELSE IF url.t = "AttributeError"
             THEN Respond(InternalServerError) /\ UNCHANGED final_download_url
             ELSE /\ final_download_url' = url
                  /\ IF ~ Truthy(url)
                     THEN Respond(jsonify(MsgNoLink, 500))
                     ELSE pc' = "file" /\ UNCHANGED response
  /\ calls' = Append(calls, Call("api_post", PyStr(cookie_header)))
  /\ UNCHANGED << request, freepik_url, cookie_header, page_response, resource_id,
                  wallet_id, payload, file_response, store, conn, relayed,
                  stream_end, blob, parsed >>

\* download(), lines 135-150: the streamed file GET.  With stream=True the
\* call returns when the headers are in, the body still on the connection.
\* On an HTTPError the except clause reads e.response.text, which drains the
\* body (the connection goes back) or fails on the network (readfails: the
\* read raises inside the except clause, the connection is closed).  A
\* missing content-type makes headers['content-type'] raise KeyError.
download_file ==
  /\ pc = "file"
  /\ \E err \in BOOLEAN, status \in Statuses, h \in 1..Len(FileHeaders),
        body \in Bodies(MaxChunks), readfails \in BOOLEAN :
       LET r == Upstream(err, IF err THEN 0 ELSE status, body, FileHeaders[h])
           content_disposition ==
             IF "content-disposition" \in DOMAIN r.headers
             THEN r.headers["content-disposition"] ELSE "None"
       IN /\ file_response' = r
          /\ IF r.err
             THEN request_exception /\ UNCHANGED conn
             ELSE IF raise_for_status(r.status)
             THEN /\ conn' = "released"
                  /\ IF readfails THEN Respond(InternalServerError) ELSE request_exception
             ELSE IF "content-type" \notin DOMAIN r.headers
             THEN /\ conn' = "open"
                  /\ Respond(InternalServerError)
             ELSE /\ conn' = "open"
                  /\ response' = [status |-> 200, kind |-> "stream", msg |-> "",
                                  headers |-> ("Content-Type" :> r.headers["content-type"])
                                           @@ ("Content-Disposition" :> content_disposition)]
                  /\ pc' = "relay"
  /\ calls' = Append(calls, Call("file_get", PyNone))
  /\ UNCHANGED << request, freepik_url, cookie_header, page_response, resource_id,
                  wallet_id, payload, api_response, final_download_url,
                  store, relayed, stream_end, blob, parsed >>

\* line 141: the server pulls the next chunk of iter_content and writes it
relay_chunk ==
  /\ pc = "relay"
  /\ Len(relayed) < Len(file_response.content)
  /\ relayed' = Append(relayed, file_response.content[Len(relayed) + 1])
  /\ UNCHANGED << pc, request, response, locals, store, calls, conn, stream_end, blob, parsed >>

\* line 141: iter_content is exhausted; reading to the end of the body gives
\* the connection back
relay_end ==
  /\ pc = "relay"
  /\ Len(relayed) = Len(file_response.content)
  /\ conn' = "released"
  /\ stream_end' = "exhausted"
  /\ pc' = "done"
  /\ UNCHANGED << request, response, locals, store, calls, relayed, blob, parsed >>

\* line 141: upstream breaks off inside the body; the read raises in the
\* generator and closes the connection
upstream_abort ==
  /\ pc = "relay"
  /\ Len(relayed) < Len(file_response.content)
  /\ conn' = "released"
  /\ stream_end' = "aborted"
  /\ pc' = "done"
  /\ UNCHANGED << request, response, locals, store, calls, relayed, blob, parsed >>

\* lines 141-143: the client goes away; the server closes the Response, which
\* closes the generator of iter_content.  Nothing in download() closes
\* file_response: a chunked body is closed by the generator's cleanup, any
\* other body stays on the connection until the object is collected.
client_disconnect ==
  /\ pc = "relay"
  /\ conn' \in {"open", "released"}
  /\ stream_end' = "disconnected"
  /\ pc' = "done"
  /\ UNCHANGED << request, response, locals, store, calls, relayed, blob, parsed >>

Next ==
  \/ health
  \/ unrouted
  \/ download_begin
  \/ download_cookies
  \/ download_page
  \/ download_api
  \/ download_file
  \/ relay_chunk
  \/ relay_end
  \/ upstream_abort
  \/ client_disconnect

Spec == Init /\ [][Next]_vars

\* ------------------------------------------ the parser on its own (51-54)
\* the caller builds a jar, line by line out of JarLines, and parses it
InitParse ==
  /\ pc = "jar"
  /\ request = NoRequest
  /\ response = NoResponse
  /\ freepik_url = JNull
  /\ cookie_header = <<>>
  /\ page_response = NoUpstream
  /\ resource_id = JNull
  /\ wallet_id = JNull
  /\ payload = NoPayload
  /\ api_response = NoUpstream
  /\ final_download_url = JNull
  /\ file_response = NoUpstream
  /\ store = NoStore
  /\ calls = <<>>
  /\ conn = "none"
  /\ relayed = <<>>
  /\ stream_end = ""
  /\ blob = <<>>
  /\ parsed = <<>>

jar_line ==
  /\ pc = "jar"
  /\ Len(blob) < MaxLines
  /\ \E i \in 1..Len(JarLines) : blob' = Append(blob, i)
  /\ UNCHANGED << pc, request, response, locals, store, calls, conn, relayed, stream_end, parsed >>

\* parse_cookies_for_header(blob)
jar_parse ==
  /\ pc = "jar"
  /\ parsed' = parse_cookies_for_header(PyStr(Render(blob)))
  /\ pc' = "parsed"
  /\ UNCHANGED << request, response, locals, store, calls, conn, relayed, stream_end, blob >>

\* parse_cookies_for_header(None)
jar_none ==
  /\ pc = "jar"
  /\ blob = <<>>
  /\ parsed' = parse_cookies_for_header(PyNone)
  /\ pc' = "parsed_none"
  /\ UNCHANGED << request, response, locals, store, calls, conn, relayed, stream_end, blob >>

NextParse ==
  \/ jar_line
  \/ jar_parse
  \/ jar_none

SpecParse == InitParse /\ [][NextParse]_vars


\* ------------------------------------------------------------- properties
Ops == [i \in 1..Len(calls) |-> calls[i].op]
Called(op) == \E i \in 1..Len(calls) : calls[i].op = op
Order == << "store", "page_get", "api_post", "file_get" >>
IsDownload == request.method = "POST" /\ request.path = "/download"
Is2xx(status) == 200 <= status /\ status <= 299
\* the request failed on the network or came back with a status outside 2xx
Failed(r) == r.err \/ ~ Is2xx(r.status)
ErrorStatus == {400, 500, 502}
\* the ids the page data holds at props.pageProps.id and
\* props.pageProps.user.wallet.id (null: none there)
PagePP == Get(Get(page_response.content.data, "props", EmptyDict), "pageProps", EmptyDict)
PageRid == Get(PagePP, "id", JNull)
PageWid == Get(Get(Get(PagePP, "user", EmptyDict), "wallet", EmptyDict), "id", JNull)
\* the page came back with the tag and JSON the two paths can be walked in
PageRead ==
  /\ Called("page_get")
  /\ ~ page_response.err
  /\ ~ raise_for_status(page_response.status)
  /\ page_response.content.tag
  /\ page_response.content.valid
  /\ PageRid.t # "AttributeError"
  /\ PageWid.t # "AttributeError"
\* the store gives no usable cookie
StoreFails ==
  \/ ~ store.db
  \/ store.raises
  \/ ~ store.exists
  \/ ~ store.hasValue
  \/ store.value = <<>>
  \/ parse_cookies_for_header(PyStr(store.value)) = <<>>

\* C1: in POST /download a network failure or a non-2xx status of the page
\* GET, the API POST or the file GET ends the request with 502, and a page
\* fetched with 2xx that lacks the __NEXT_DATA__ tag ends it with 500 and
\* the 'Could not parse page data...' message.
C1_TransportVersusStructure ==
  /\ (Called("page_get") /\ Failed(page_response))
       => (pc = "done" /\ response.status = 502)
  /\ (Called("api_post") /\ Failed(api_response))
       => (pc = "done" /\ response.status = 502)
  /\ (Called("file_get") /\ Failed(file_response))
       => (pc = "done" /\ response.status = 502)
  /\ (Called("page_get") /\ ~ Failed(page_response) /\ ~ page_response.content.tag)
       => (pc = "done" /\ response.status = 500 /\ response.msg = MsgPageData)

\* C2: a Cookie header that goes out is never empty, and when the store
\* gives no usable cookie (no client, the fetch raises, no document, no or
\* an empty value, a blob that parses to nothing) the request ends with 500
\* and the store read is the only call made.
C2_CookieNeverEmpty ==
  /\ \A i \in 1..Len(calls) : ~ calls[i].cookie.isNone => calls[i].cookie.s # <<>>
  /\ (store.read /\ StoreFails)
       => (pc = "done" /\ response.status = 500 /\ Ops = << "store" >>)
C2_Witness ==
  /\ store.read /\ store.db /\ store.exists /\ store.hasValue
  /\ store.value # <<>>
  /\ response = jsonify(MsgParseCookies, 500)
  /\ Ops = << "store" >>

\* C3: a POST /download whose JSON object has no freepikUrl (no key, null
\* or the empty string) is answered 400 with no store read and no outbound
\* request.
NoUrl(d) ==
  \/ "freepikUrl" \notin DOMAIN d.f
  \/ d.f["freepikUrl"].t = "null"
  \/ (d.f["freepikUrl"].t = "str" /\ d.f["freepikUrl"].s = "")
C3_MissingUrl ==
  (IsDownload /\ request.body.kind = "json" /\ request.body.data.t = "obj"
     /\ NoUrl(request.body.data))
    => (pc = "done" /\ response = jsonify(MsgUrlRequired, 400) /\ calls = <<>>)
C3_Witness ==
  /\ IsDownload
  /\ request.body.data.t = "obj"
  /\ "freepikUrl" \in DOMAIN request.body.data.f
  /\ request.body.data.f["freepikUrl"].t = "str"
  /\ response.status = 400
  /\ calls = <<>>

\* C4: a POST /download that does not end in a file stream ends with a JSON
\* error body and a status of 400, 500 or 502; the handler never ends in an
\* exception it does not catch.
C4_StructuredErrors ==
  (IsDownload /\ pc = "done" /\ response.kind # "stream")
    => (response.kind = "json" /\ response.status \in ErrorStatus)

\* C5: on the happy path (page GET and API POST 2xx, ids and url found,
\* file GET 2xx) the client gets a stream whose
\* Content-Type and Content-Disposition are those of the upstream response
\* (a header upstream does not send is not sent either), whose chunks are a
\* prefix of the upstream body at any time and the whole body once upstream
\* is exhausted.
SameHeader(up, down) ==
  IF up \in DOMAIN file_response.headers
  THEN down \in DOMAIN response.headers
       /\ response.headers[down] = file_response.headers[up]
  ELSE down \notin DOMAIN response.headers
C5_RelayVerbatim ==
  (Called("file_get") /\ ~ Failed(page_response) /\ ~ Failed(api_response)
     /\ ~ Failed(file_response))
    => /\ response.kind = "stream"
       /\ SameHeader("content-type", "Content-Type")
       /\ SameHeader("content-disposition", "Content-Disposition")
       /\ Len(relayed) <= Len(file_response.content)
       /\ relayed = SubSeq(file_response.content, 1, Len(relayed))
       /\ stream_end = "exhausted" => relayed = file_response.content

\* C6: parse_cookies_for_header gives the '; '-join, in line order, of the
\* name=value of exactly the lines that are cookie records (trimmed: not
\* empty, no leading '#', seven tab fields), and '' when there is none.
Expected(idx) ==
  LET kept == SelectSeq(idx, LAMBDA i : JarLines[i].keep)
  IN join(<<";", SP>>, [k \in 1..Len(kept) |-> JarLines[kept[k]].out])
C6_ParseCookies ==
  /\ pc = "parsed" => parsed = Expected(blob)
  /\ pc = "parsed_none" => parsed = <<>>
C6_Witness ==
  /\ pc = "parsed"
  /\ blob = << 3, 11, 2 >>
  /\ parsed = << "c", "=", "3", ";", SP, "b", "=", "2" >>

\* C7: GET /check-login is served: it is answered 200, 401, 500 or 502 with
\* a JSON status body.
C7_CheckLoginServed ==
  (pc = "done" /\ request.method = "GET" /\ request.path = "/check-login")
    => (response.kind = "json" /\ response.status \in {200, 401, 500, 502})

\* C8: the API POST is made only after the page GET, with the resource and
\* wallet ids of the page data as its payload; a page that lacks either id
\* ends the request with the 'missing parameters' 500 and no API POST; ids
\* present as a string or a number, 0 included, are accepted.
IsId(x) == x.t \in {"num", "str"}
C8_IdsBeforeApi ==
  /\ Called("api_post")
       => /\ Len(calls) >= 3 /\ calls[2].op = "page_get" /\ calls[3].op = "api_post"
          /\ PageRead
          /\ payload.resource = PageRid /\ payload.walletId = PageWid
          /\ payload.action = "download" /\ payload.locale = "en"
  /\ (PageRead /\ (PageRid.t = "null" \/ PageWid.t = "null"))
       => (pc = "done" /\ response = jsonify(MsgParams, 500) /\ ~ Called("api_post"))
  /\ (PageRead /\ IsId(PageRid) /\ IsId(PageWid))
       => (response # jsonify(MsgParams, 500)
           /\ payload.resource = PageRid /\ payload.walletId = PageWid)

\* C9: the store read, the page GET, the API POST and the file GET happen at
\* most once each and in this order; a step that fails (no usable cookie, a
\* network error or a non-2xx status, no script tag, a missing id, no url in
\* the API's answer) is the last one and the request ends with an error
\* response; an API answer without url gives the 'no download link' error.
ApiUrl == Get(api_response.content.data, "url", JNull)
C9_OnceInOrderNoRetry ==
  /\ Len(calls) <= Len(Order)
  /\ Ops = SubSeq(Order, 1, Len(calls))
  /\ (store.read /\ StoreFails)
       => (Len(calls) = 1 /\ pc = "done" /\ response.status \in ErrorStatus)
  /\ (Called("page_get")
        /\ (Failed(page_response) \/ ~ page_response.content.tag
            \/ (PageRead /\ (PageRid.t = "null" \/ PageWid.t = "null"))))
       => (Len(calls) = 2 /\ pc = "done" /\ response.status \in ErrorStatus)
  /\ (Called("api_post") /\ Failed(api_response))
       => (Len(calls) = 3 /\ pc = "done" /\ response.status \in ErrorStatus)
  /\ (Called("api_post") /\ ~ Failed(api_response) /\ api_response.content.valid
        /\ ApiUrl.t = "null")
       => (Len(calls) = 3 /\ pc = "done" /\ response = jsonify(MsgNoLink, 500))
  /\ (Called("file_get") /\ Failed(file_response))
       => (pc = "done" /\ response.status \in ErrorStatus)

\* C10: once the request has ended, the connection of the file GET is not
\* held any more, whichever way the request ended.
C10_ConnectionReleased == pc = "done" => conn # "open"

====
